---- MODULE Spec2Model ----
(***************************************************************************)
(* A model of app.py, the SQL practice tool: the dataset loader            *)
(* (create_database_from_sql), the executor (execute_user_query), the      *)
(* reference answer bank (get_expected_result), the result comparator      *)
(* (compare_query_results) and the POST /execute_query handler.            *)
(*                                                                         *)
(* Strings are sequences of one-character strings, so that strip, upper,   *)
(* startswith, split and the substring test are computed as Python         *)
(* computes them.  Cells are tagged with their Python type, so that ==     *)
(* and < behave as Python's do (1 == 1.0, None < 1 raises TypeError).      *)
(***************************************************************************)
EXTENDS Integers, Sequences, FiniteSets, TLC

VARIABLES
    sql_content,      \* the text of all_codes.sql, the dataset script
    conns,            \* every database connection made so far, in order
    calls,            \* execute_user_query: the calls made, with their results
    pc,               \* create_database_from_sql: where the loader stands
    statements,       \* create_database_from_sql: sql_content.split(";")
    stmt_idx,         \* create_database_from_sql: the loop's position
    loader_db,        \* create_database_from_sql: the database being built
    attempted,        \* create_database_from_sql: the statements executed
    request,          \* POST /execute_query: the JSON body received
    response,         \* POST /execute_query: the JSON body returned
    user_result,      \* compare_query_results: its first argument
    expected_result,  \* compare_query_results: its second argument
    comparison        \* compare_query_results: the verdict returned

vars == <<sql_content, conns, calls, pc, statements, stmt_idx, loader_db,
          attempted, request, response, user_result, expected_result,
          comparison>>

\* ------------------------------------------------------------------------
\* Bounds
\* ------------------------------------------------------------------------
MaxRows == 3         \* rows of a result handed to the comparator
MaxCalls == 3        \* execute_user_query calls in one run
MaxQueryTokens == 3  \* pieces a submitted query is put together from
MaxScriptTokens == 4 \* pieces a dataset script is put together from

\* ------------------------------------------------------------------------
\* Python values
\* ------------------------------------------------------------------------
PyNone == [t |-> "NoneType", v |-> 0]
PyInt(n) == [t |-> "int", v |-> n]
PyFloat(n) == [t |-> "float", v |-> n]

\* x == y on cells: None equals only None; int and float compare by value.
PyEq(x, y) ==
    IF x.t = "NoneType" \/ y.t = "NoneType" THEN x.t = y.t ELSE x.v = y.v

\* x < y raises TypeError when either side is None.
PyLtRaises(x, y) == x.t = "NoneType" \/ y.t = "NoneType"

PyLt(x, y) == x.v < y.v

\* str < str on the column names the model uses ("a" < "b").
NameRank(n) == CASE n = "a" -> 1 [] n = "b" -> 2 [] OTHER -> 3

NameLt(m, n) == NameRank(m) < NameRank(n)

\* ------------------------------------------------------------------------
\* tuple(sorted(row.items())): the (name, value) pairs of a dict, by name.
\* Keys of a dict are distinct, so the sort never compares two values.
\* ------------------------------------------------------------------------
RECURSIVE SortedNames(_)
SortedNames(S) ==
    IF S = {} THEN <<>>
    ELSE LET m == CHOOSE x \in S : \A y \in S : ~NameLt(y, x)
         IN  <<m>> \o SortedNames(S \ {m})

SortedItems(row) ==
    LET names == SortedNames(DOMAIN row)
    IN  [i \in 1..Len(names) |-> <<names[i], row[names[i]]>>]

\* (name, value) == (name, value)
ItemEq(p, q) == p[1] = q[1] /\ PyEq(p[2], q[2])

\* The first index at which two tuples differ under ==, or 0.
FirstDiff(x, y) ==
    LET n == IF Len(x) < Len(y) THEN Len(x) ELSE Len(y)
        D == {i \in 1..n : ~ItemEq(x[i], y[i])}
    IN  IF D = {} THEN 0 ELSE CHOOSE i \in D : \A j \in D : i <= j

\* (name, value) < (name, value): names first, then the values.
ItemLtRaises(p, q) == p[1] = q[1] /\ ~PyEq(p[2], q[2]) /\ PyLtRaises(p[2], q[2])

ItemLt(p, q) ==
    IF p[1] # q[1] THEN NameLt(p[1], q[1])
    ELSE IF PyEq(p[2], q[2]) THEN FALSE
    ELSE PyLt(p[2], q[2])

\* tuple < tuple: < is applied to the first pair of items that differ.
TupleLtRaises(x, y) ==
    LET i == FirstDiff(x, y) IN i # 0 /\ ItemLtRaises(x[i], y[i])

TupleLt(x, y) ==
    LET i == FirstDiff(x, y)
    IN  IF i = 0 THEN Len(x) < Len(y) ELSE ItemLt(x[i], y[i])

TupleEq(x, y) == Len(x) = Len(y) /\ FirstDiff(x, y) = 0

\* list == list
ListEq(xs, ys) ==
    Len(xs) = Len(ys) /\ \A i \in 1..Len(xs) : TupleEq(xs[i], ys[i])

\* ------------------------------------------------------------------------
\* sorted(list) for lists shorter than 64 items: CPython's list.sort counts
\* the initial run (reversing a strictly descending one) and inserts the
\* remaining items by binary insertion.  A comparison that raises aborts
\* the sort.  A sort result is [raised, val].
\* ------------------------------------------------------------------------
Raise == [raised |-> TRUE, val |-> <<>>]

Return(v) == [raised |-> FALSE, val |-> v]

Reverse(s) == [i \in 1..Len(s) |-> s[Len(s) + 1 - i]]

\* count_run: the length of the run starting at xs[1] (n >= 2), whether it
\* descends, and whether a comparison raised.
RECURSIVE RunEnd(_, _, _)
RunEnd(xs, k, desc) ==
    IF k > Len(xs) THEN [raised |-> FALSE, n |-> Len(xs)]
    ELSE IF TupleLtRaises(xs[k], xs[k - 1]) THEN [raised |-> TRUE, n |-> 0]
    ELSE IF TupleLt(xs[k], xs[k - 1]) = desc THEN RunEnd(xs, k + 1, desc)
    ELSE [raised |-> FALSE, n |-> k - 1]

CountRun(xs) ==
    IF TupleLtRaises(xs[2], xs[1]) THEN [raised |-> TRUE, n |-> 0, desc |-> FALSE]
    ELSE LET desc == TupleLt(xs[2], xs[1])
             e == RunEnd(xs, 3, desc)
         IN  [raised |-> e.raised, n |-> e.n, desc |-> desc]

\* binarysort's search for the place of pivot in the sorted xs[l+1 .. r].
RECURSIVE BinarySearch(_, _, _, _)
BinarySearch(xs, pivot, l, r) ==
    IF l >= r THEN [raised |-> FALSE, at |-> l]
    ELSE LET p == l + ((r - l) \div 2)
         IN  IF TupleLtRaises(pivot, xs[p + 1]) THEN [raised |-> TRUE, at |-> 0]
             ELSE IF TupleLt(pivot, xs[p + 1]) THEN BinarySearch(xs, pivot, l, p)
             ELSE BinarySearch(xs, pivot, p + 1, r)

\* binarysort: xs[1 .. start-1] is sorted; insert xs[start ..] one by one.
RECURSIVE BinarySort(_, _)
BinarySort(xs, start) ==
    IF start > Len(xs) THEN Return(xs)
    ELSE LET pivot == xs[start]
             s == BinarySearch(xs, pivot, 0, start - 1)
         IN  IF s.raised THEN Raise
             ELSE BinarySort(
                     SubSeq(xs, 1, s.at) \o <<pivot>>
                         \o SubSeq(xs, s.at + 1, start - 1)
                         \o SubSeq(xs, start + 1, Len(xs)),
                     start + 1)

Sorted(xs) ==
    IF Len(xs) < 2 THEN Return(xs)
    ELSE LET run == CountRun(xs)
         IN  IF run.raised THEN Raise
             ELSE LET head == SubSeq(xs, 1, run.n)
                      ys == (IF run.desc THEN Reverse(head) ELSE head)
                                \o SubSeq(xs, run.n + 1, Len(xs))
                  IN  BinarySort(ys, run.n + 1)

\* ------------------------------------------------------------------------
\* Python strings
\* ------------------------------------------------------------------------
IsSpace(c) == c \in {" ", "\n", "\t"}

Lower == <<"a", "b", "c", "d", "e", "f", "g", "h", "i", "j", "k", "l", "m",
           "n", "o", "p", "q", "r", "s", "t", "u", "v", "w", "x", "y", "z">>

UpperCase == <<"A", "B", "C", "D", "E", "F", "G", "H", "I", "J", "K", "L", "M",
               "N", "O", "P", "Q", "R", "S", "T", "U", "V", "W", "X", "Y", "Z">>

UpperChar(c) ==
    IF \E i \in 1..Len(Lower) : Lower[i] = c
    THEN UpperCase[CHOOSE i \in 1..Len(Lower) : Lower[i] = c]
    ELSE c

\* s.upper()
Upper(s) == [i \in 1..Len(s) |-> UpperChar(s[i])]

RECURSIVE LStrip(_)
LStrip(s) == IF s # <<>> /\ IsSpace(Head(s)) THEN LStrip(Tail(s)) ELSE s

RECURSIVE RStrip(_)
RStrip(s) ==
    IF s # <<>> /\ IsSpace(s[Len(s)]) THEN RStrip(SubSeq(s, 1, Len(s) - 1)) ELSE s

\* s.strip()
Strip(s) == RStrip(LStrip(s))

\* s.startswith(p)
StartsWith(s, p) == Len(p) <= Len(s) /\ SubSeq(s, 1, Len(p)) = p

\* p in s
Contains(s, p) ==
    \E i \in 0..(Len(s) - Len(p)) : SubSeq(s, i + 1, i + Len(p)) = p

\* s.split(";"): the fragments between the separators, empty ones included.
RECURSIVE SplitFrom(_, _, _)
SplitFrom(s, i, cur) ==
    IF i > Len(s) THEN <<cur>>
    ELSE IF s[i] = ";" THEN <<cur>> \o SplitFrom(s, i + 1, <<>>)
    ELSE SplitFrom(s, i + 1, Append(cur, s[i]))

Split(s) == SplitFrom(s, 1, <<>>)

\* ------------------------------------------------------------------------
\* The embedded engine (sqlite3), reduced to one table t(a, b) and to the
\* statement classes the program tells apart.  A database is [exists, rows];
\* an execution returns [error, db, description, rows, rowcount].
\*   CREATE              create the table (an error when it exists)
\*   DROP                drop the table (an error when it is missing)
\*   INSERT xy           insert the row (x, y); x, y in n 1 2 r
\*   REPLACE xy          the same, by a statement the keyword list omits
\*   DELETE              delete every row
\*   PRAGMA              a statement that returns no rows and changes none
\*   SELECT cols         read the columns a,b,... of every row
\*   WITH cols           a read that does not begin with SELECT
\* Keywords are case-insensitive; leading white space and -- comments are
\* skipped, as the engine's tokenizer does; anything else is a syntax error.
\* ------------------------------------------------------------------------
EmptyDb == [exists |-> FALSE, rows |-> <<>>]

kwSELECT == <<"S", "E", "L", "E", "C", "T">>
kwWITH == <<"W", "I", "T", "H">>
kwCREATE == <<"C", "R", "E", "A", "T", "E">>
kwDROP == <<"D", "R", "O", "P">>
kwINSERT == <<"I", "N", "S", "E", "R", "T">>
kwREPLACE == <<"R", "E", "P", "L", "A", "C", "E">>
kwDELETE == <<"D", "E", "L", "E", "T", "E">>
kwPRAGMA == <<"P", "R", "A", "G", "M", "A">>
kwUPDATE == <<"U", "P", "D", "A", "T", "E">>
kwALTER == <<"A", "L", "T", "E", "R">>
kwTRUNCATE == <<"T", "R", "U", "N", "C", "A", "T", "E">>

\* The text from the first character that is neither white space nor part
\* of a -- comment.
RECURSIVE SkipLine(_)
SkipLine(s) ==
    IF s = <<>> THEN <<>>
    ELSE IF Head(s) = "\n" THEN Tail(s)
    ELSE SkipLine(Tail(s))

RECURSIVE SkipBlank(_)
SkipBlank(s) ==
    IF s = <<>> THEN <<>>
    ELSE IF IsSpace(Head(s)) THEN SkipBlank(Tail(s))
    ELSE IF StartsWith(s, <<"-", "-">>) THEN SkipBlank(SkipLine(s))
    ELSE s

CellOf(c) ==
    CASE c = "n" -> PyNone
      [] c = "1" -> PyInt(1)
      [] c = "2" -> PyInt(2)
      [] OTHER -> PyFloat(1)

IsCellChar(c) == c \in {"n", "1", "2", "r"}

\* A select list: a or b, separated by commas.
IsColumnList(s) ==
    /\ Len(s) % 2 = 1
    /\ \A i \in 1..Len(s) :
          IF i % 2 = 1 THEN s[i] \in {"a", "b"} ELSE s[i] = ","

ColumnList(s) == [i \in 1..((Len(s) + 1) \div 2) |-> s[2 * i - 1]]

ColumnIndex(name) == IF name = "a" THEN 1 ELSE 2

EngineError(db) ==
    [error |-> TRUE, db |-> db, description |-> <<>>, rows |-> <<>>,
     rowcount |-> -1]

EngineDone(db, rowcount) ==
    [error |-> FALSE, db |-> db, description |-> <<>>, rows |-> <<>>,
     rowcount |-> rowcount]

EngineRead(db, cols) ==
    [error |-> FALSE, db |-> db, description |-> cols,
     rows |-> [i \in 1..Len(db.rows) |->
                  [j \in 1..Len(cols) |-> db.rows[i][ColumnIndex(cols[j])]]],
     rowcount |-> -1]

\* cursor.execute(text) on a connection whose database is db.
Engine(db, text) ==
    LET body == RStrip(SkipBlank(text))
        up == Upper(body)
        arg(kw) == SubSeq(body, Len(kw) + 2, Len(body))
        has(kw) == StartsWith(up, Append(kw, " "))
    IN  IF body = <<>> THEN EngineDone(db, -1)
        ELSE IF has(kwSELECT) \/ has(kwWITH) THEN
            LET cols == arg(IF has(kwSELECT) THEN kwSELECT ELSE kwWITH)
            IN  IF IsColumnList(cols) /\ db.exists
                THEN EngineRead(db, ColumnList(cols))
                ELSE EngineError(db)
        ELSE IF has(kwINSERT) \/ has(kwREPLACE) THEN
            LET val == arg(IF has(kwINSERT) THEN kwINSERT ELSE kwREPLACE)
            IN  IF Len(val) = 2 /\ IsCellChar(val[1]) /\ IsCellChar(val[2])
                   /\ db.exists
                THEN EngineDone(
                        [db EXCEPT !.rows =
                            Append(@, <<CellOf(val[1]), CellOf(val[2])>>)],
                        1)
                ELSE EngineError(db)
        ELSE IF up = kwCREATE THEN
            IF db.exists THEN EngineError(db)
            ELSE EngineDone([db EXCEPT !.exists = TRUE], -1)
        ELSE IF up = kwDROP THEN
            IF db.exists THEN EngineDone(EmptyDb, -1) ELSE EngineError(db)
        ELSE IF up = kwDELETE THEN
            IF db.exists
            THEN EngineDone([db EXCEPT !.rows = <<>>], Len(db.rows))
            ELSE EngineError(db)
        ELSE IF up = kwPRAGMA THEN EngineDone(db, -1)
        ELSE EngineError(db)

\* ------------------------------------------------------------------------
\* create_database_from_sql
\* ------------------------------------------------------------------------
\* The body of the loop over the fragments: strip; skip an empty fragment
\* and one that starts with "--"; execute the rest, a failure being printed
\* and passed over.  ld is [db, attempted].
LoadStatement(ld, fragment) ==
    LET statement == Strip(fragment)
    IN  IF statement # <<>> /\ ~StartsWith(statement, <<"-", "-">>)
        THEN [db |-> Engine(ld.db, statement).db,
              attempted |-> Append(ld.attempted, statement)]
        ELSE ld

RECURSIVE LoadFrom(_, _, _)
LoadFrom(ld, frags, i) ==
    IF i > Len(frags) THEN ld
    ELSE LoadFrom(LoadStatement(ld, frags[i]), frags, i + 1)

create_database_from_sql(script) ==
    LoadFrom([db |-> EmptyDb, attempted |-> <<>>], Split(script), 1).db

\* get_db_connection as a shared store would make it: the connection made
\* last is handed out again, with the database as it was left.
get_db_connection_shared(pool, script) ==
    IF pool = <<>>
    THEN [id |-> 1, db |-> create_database_from_sql(script)]
    ELSE pool[Len(pool)]

\* get_db_connection: a connection to a database loaded afresh from the
\* script.  pool holds the connections made before; each is closed when its
\* with-block is left.
get_db_connection(pool, script) ==
    [id |-> Len(pool) + 1, db |-> create_database_from_sql(script)]

\* ------------------------------------------------------------------------
\* Query results: Python dicts, as the set of keys present and their values
\* ------------------------------------------------------------------------
\* dict(row) of a sqlite3.Row: one key per distinct column name, looked up
\* by name, which finds the first column of that name.
DictOfRow(description, row) ==
    [name \in {description[i] : i \in 1..Len(description)} |->
        row[CHOOSE i \in 1..Len(description) :
               /\ description[i] = name
               /\ \A j \in 1..(i - 1) : description[j] # name]]

TabularResult(description, rows) ==
    [keys |-> {"success", "columns", "data", "row_count"},
     success |-> TRUE,
     columns |-> description,
     data |-> [i \in 1..Len(rows) |-> DictOfRow(description, rows[i])],
     row_count |-> Len(rows),
     message |-> "", error |-> ""]

AffectedResult(rowcount) ==
    [keys |-> {"success", "message", "row_count"},
     success |-> TRUE, columns |-> <<>>, data |-> <<>>,
     row_count |-> rowcount,
     message |-> "Query executed successfully. Rows affected", error |-> ""]

FailedResult(error) ==
    [keys |-> {"success", "error"},
     success |-> FALSE, columns |-> <<>>, data |-> <<>>, row_count |-> 0,
     message |-> "", error |-> error]

\* ------------------------------------------------------------------------
\* execute_user_query.  w is [conns, calls]: the connections made and the
\* calls served so far.  Returns [result, world], the world holding the
\* connection this call made and closed (its database as the statement
\* left it) and the record of the call.
\* ------------------------------------------------------------------------
\* The result dict, r being what the engine returned.
ResultOf(query, r) ==
    IF r.error THEN FailedResult("SQL Error")
    ELSE IF StartsWith(Upper(Strip(query)), kwSELECT)
    THEN TabularResult(r.description, r.rows)
    ELSE AffectedResult(r.rowcount)

Served(w, conn, query, r, result) ==
    [result |-> result,
     world |-> [conns |-> Append(w.conns, [conn EXCEPT !.db = r.db]),
                calls |-> Append(w.calls,
                    [query |-> query, conn |-> conn.id, result |-> result])]]

ExecuteOn(w, conn, query, r) == Served(w, conn, query, r, ResultOf(query, r))

WithConnection(w, conn, query) == ExecuteOn(w, conn, query, Engine(conn.db, query))

execute_user_query(w, script, query) ==
    WithConnection(w, get_db_connection(w.conns, script), query)

\* ------------------------------------------------------------------------
\* get_expected_result: the four reference queries, each a read of the
\* engine's dialect standing for the SQL text of the bank.
\* ------------------------------------------------------------------------
SP == <<" ">>

expected_queries ==
    [id \in {"1", "2", "3", "4"} |->
        CASE id = "1" -> kwSELECT \o SP \o <<"a", ",", "b">>
          [] id = "2" -> kwSELECT \o SP \o <<"b", ",", "a">>
          [] id = "3" -> kwSELECT \o SP \o <<"a">>
          [] OTHER -> kwSELECT \o SP \o <<"b">>]

get_expected_result(w, script, question_id) ==
    IF question_id \in DOMAIN expected_queries
    THEN execute_user_query(w, script, expected_queries[question_id])
    ELSE [result |-> FailedResult("Question not found"), world |-> w]

\* ------------------------------------------------------------------------
\* compare_query_results
\* ------------------------------------------------------------------------
Null == [null |-> TRUE, match |-> FALSE, message |-> ""]

Verdict(match, message) == [null |-> FALSE, match |-> match, message |-> message]

SeqToSet(s) == {s[i] : i \in 1..Len(s)}

\* SortedData without the sort of the rows.
SortedData_unsorted(data) == Return([i \in 1..Len(data) |-> SortedItems(data[i])])

\* sorted([tuple(sorted(row.items())) for row in data])
SortedData(data) == Sorted([i \in 1..Len(data) |-> SortedItems(data[i])])

compare_query_results(user, expected) ==
    IF ~user.success THEN Verdict(FALSE, "User query failed")
    ELSE IF ~expected.success THEN Verdict(FALSE, "Expected query failed")
    ELSE IF "data" \in user.keys /\ "data" \in expected.keys THEN
        IF Len(user.data) # Len(expected.data)
        THEN Verdict(FALSE, "Row count mismatch")
        ELSE IF SeqToSet(user.columns) # SeqToSet(expected.columns)
        THEN Verdict(FALSE, "Column mismatch")
        ELSE LET user_data_sorted == SortedData(user.data)
                 expected_data_sorted == SortedData(expected.data)
             IN  IF user_data_sorted.raised \/ expected_data_sorted.raised
                 THEN Verdict(FALSE, "Error comparing data")
                 ELSE IF ~ListEq(user_data_sorted.val, expected_data_sorted.val)
                 THEN Verdict(FALSE, "Data content does not match exactly")
                 ELSE Verdict(TRUE, "Perfect match!")
    ELSE IF user.row_count = expected.row_count
    THEN Verdict(TRUE, "Row counts match")
    ELSE Verdict(FALSE, "Row count mismatch")

\* ------------------------------------------------------------------------
\* POST /execute_query.  A request is the JSON body: the keys present and
\* their values.  Returns [response, world].
\* ------------------------------------------------------------------------
destructive_keywords ==
    <<kwDROP, kwDELETE, kwUPDATE, kwINSERT, kwALTER, kwCREATE, kwTRUNCATE>>

ErrorResponse(error) ==
    [keys |-> {"success", "error"}, success |-> FALSE, error |-> error,
     user_result |-> FailedResult(""), comparison |-> Null]

ResultResponse(result, verdict) ==
    [keys |-> {"user_result", "comparison"}, success |-> TRUE, error |-> "",
     user_result |-> result, comparison |-> verdict]

\* AnyDestructive as a test of how the text begins.
AnyDestructive_prefix(text) ==
    \E k \in 1..Len(destructive_keywords) : StartsWith(text, destructive_keywords[k])

\* any(keyword in text for keyword in destructive_keywords)
AnyDestructive(text) ==
    \E k \in 1..Len(destructive_keywords) : Contains(text, destructive_keywords[k])

Rejected(w, error) == [response |-> ErrorResponse(error), world |-> w]

\* comparison = compare_query_results(user_result, expected_result)
Compared(u, x) ==
    [response |-> ResultResponse(u.result,
                      compare_query_results(u.result, x.result)),
     world |-> x.world]

\* Truthy as a test of the identifier being one of the bank's.
Truthy_recognized(question_id) == question_id \in DOMAIN expected_queries

\* if question_id:
Truthy(question_id) == question_id # ""

\* The part of the handler after the user's query has run.
Answered(u, script, question_id) ==
    IF Truthy(question_id)
    THEN Compared(u, get_expected_result(u.world, script, question_id))
    ELSE [response |-> ResultResponse(u.result, Null), world |-> u.world]

\* The part of the handler from the checks on.
Checked(w, script, data, user_query) ==
    IF data.keys = {} THEN Rejected(w, "No JSON data received")
    ELSE IF user_query = <<>> THEN Rejected(w, "Query cannot be empty")
    ELSE IF AnyDestructive(Upper(user_query))
    THEN Rejected(w, "For security reasons, only SELECT queries are allowed in this demo")
    ELSE Answered(execute_user_query(w, script, user_query), script,
                  IF "question_id" \in data.keys THEN data.question_id ELSE "")

execute_query(w, script, data) ==
    Checked(w, script, data,
            Strip(IF "query" \in data.keys THEN data.query ELSE <<>>))

\* ------------------------------------------------------------------------
\* Inputs
\* ------------------------------------------------------------------------
\* The sequences of at most n members of S.
SeqsUpTo(S, n) == UNION {[1..k -> S] : k \in 0..n}

RECURSIVE Concat(_)
Concat(ts) == IF ts = <<>> THEN <<>> ELSE Head(ts) \o Concat(Tail(ts))

\* The rows of the practice table: (1, NULL), (1.0, 2), (2, 1).
RowX == <<PyInt(1), PyNone>>
RowY == <<PyFloat(1), PyInt(2)>>
RowZ == <<PyInt(2), PyInt(1)>>

RawRows == {RowX, RowY, RowZ}

Project(row, cols) == [j \in 1..Len(cols) |-> row[ColumnIndex(cols[j])]]

Descriptions == {<<"a", "b">>, <<"b", "a">>, <<"a">>}

\* The results execute_user_query can hand to the comparator.
Results ==
    {TabularResult(d, [i \in 1..Len(rows) |-> Project(rows[i], d)]) :
        d \in Descriptions, rows \in SeqsUpTo(RawRows, MaxRows)}
    \cup {AffectedResult(n) : n \in {-1, 1, 2}}
    \cup {FailedResult("SQL Error")}

insRowX == kwINSERT \o SP \o <<"1", "n">>
insRowY == kwINSERT \o SP \o <<"r", "2">>
insRowZ == kwINSERT \o SP \o <<"2", "1">>
SEMI == <<";">>
NL == <<"\n">>
COMMENT == <<"-", "-", "c">>
BAD == <<"x">>

\* Dataset scripts: a complete one, and one whose first statement follows
\* a comment line and whose second fails.
Datasets ==
    {kwCREATE \o SEMI \o NL \o insRowX \o SEMI \o insRowY \o SEMI \o insRowZ \o SEMI,
     COMMENT \o NL \o kwCREATE \o SEMI \o BAD \o SEMI \o insRowZ \o SEMI \o NL}

ScriptTokens == {kwCREATE, insRowX, SEMI, NL, COMMENT, BAD, SP}

Scripts == {Concat(ts) : ts \in SeqsUpTo(ScriptTokens, MaxScriptTokens)}

\* The statements execute_user_query is called with.
ExecQueries ==
    {kwSELECT \o SP \o <<"a">>,
     kwSELECT \o SP \o <<"a", ",", "a">>,
     kwSELECT \o SP \o <<"a", ",", "b">>,
     SP \o <<"s", "e", "l", "e", "c", "t">> \o SP \o <<"b">> \o NL,
     kwWITH \o SP \o <<"b">>,
     insRowZ,
     kwREPLACE \o SP \o <<"1", "n">>,
     kwDELETE, kwDROP, kwCREATE, kwPRAGMA, BAD}

QueryTokens ==
    {Append(kwSELECT, " "), <<"s", "e", "l", "e", "c", "t", " ">>,
     Append(kwWITH, " "), Append(kwREPLACE, " "), <<"d", "r", "o", "p">>,
     <<"a">>, <<",", "b">>, <<"1", "n">>, SP}

Queries == {Concat(ts) : ts \in SeqsUpTo(QueryTokens, MaxQueryTokens)}

QuestionIds == {"", "1", "99"}

\* The JSON bodies: query and question_id, each present or not.
Requests ==
    {[keys |-> ks,
      query |-> IF "query" \in ks THEN q ELSE <<>>,
      question_id |-> IF "question_id" \in ks THEN id ELSE ""] :
        ks \in SUBSET {"query", "question_id"}, q \in Queries, id \in QuestionIds}

\* ------------------------------------------------------------------------
\* The state of the parts a specification leaves alone
\* ------------------------------------------------------------------------
NoResponse ==
    [keys |-> {}, success |-> FALSE, error |-> "", user_result |-> FailedResult(""),
     comparison |-> Null]

NoRequest == [keys |-> {}, query |-> <<>>, question_id |-> ""]

LoaderIdle ==
    /\ pc = "idle"
    /\ statements = <<>>
    /\ stmt_idx = 0
    /\ loader_db = EmptyDb
    /\ attempted = <<>>

ServerIdle ==
    /\ request = NoRequest
    /\ response = NoResponse

ComparatorIdle ==
    /\ user_result = FailedResult("")
    /\ expected_result = FailedResult("")
    /\ comparison = Null

ExecutorIdle ==
    /\ conns = <<>>
    /\ calls = <<>>

loaderVars == <<pc, statements, stmt_idx, loader_db, attempted>>
serverVars == <<request, response>>
comparatorVars == <<user_result, expected_result, comparison>>
executorVars == <<conns, calls>>

\* ------------------------------------------------------------------------
\* The comparator, called on every pair of results
\* ------------------------------------------------------------------------
InitCompare ==
    /\ sql_content = <<>>
    /\ ExecutorIdle /\ LoaderIdle /\ ServerIdle
    /\ user_result \in Results
    /\ expected_result \in Results
    /\ comparison = Null

Compare ==
    /\ comparison.null
    /\ comparison' = compare_query_results(user_result, expected_result)
    /\ UNCHANGED <<sql_content, executorVars, loaderVars, serverVars,
                   user_result, expected_result>>

SpecCompare == InitCompare /\ [][Compare]_vars

\* ------------------------------------------------------------------------
\* The executor, called MaxCalls times in a row
\* ------------------------------------------------------------------------
InitExec ==
    /\ sql_content \in Datasets
    /\ ExecutorIdle /\ LoaderIdle /\ ServerIdle /\ ComparatorIdle

ExecuteUserQuery(query) ==
    /\ Len(calls) < MaxCalls
    /\ LET e == execute_user_query([conns |-> conns, calls |-> calls],
                                   sql_content, query)
       IN  /\ conns' = e.world.conns
           /\ calls' = e.world.calls
    /\ UNCHANGED <<sql_content, loaderVars, serverVars, comparatorVars>>

NextExec == \E query \in ExecQueries : ExecuteUserQuery(query)

SpecExec == InitExec /\ [][NextExec]_vars

\* ------------------------------------------------------------------------
\* POST /execute_query, one request
\* ------------------------------------------------------------------------
InitHttp ==
    /\ sql_content \in Datasets
    /\ ExecutorIdle /\ LoaderIdle /\ ServerIdle /\ ComparatorIdle

PostExecuteQuery(data) ==
    /\ LET h == execute_query([conns |-> conns, calls |-> calls],
                              sql_content, data)
       IN  /\ request' = data
           /\ response' = h.response
           /\ conns' = h.world.conns
           /\ calls' = h.world.calls
    /\ UNCHANGED <<sql_content, loaderVars, comparatorVars>>

NextHttp == response = NoResponse /\ \E data \in Requests : PostExecuteQuery(data)

SpecHttp == InitHttp /\ [][NextHttp]_vars

\* ------------------------------------------------------------------------
\* create_database_from_sql, one fragment at a time
\* ------------------------------------------------------------------------
InitLoad ==
    /\ sql_content \in Scripts
    /\ ExecutorIdle /\ ServerIdle /\ ComparatorIdle
    /\ pc = "open"
    /\ statements = <<>>
    /\ stmt_idx = 0
    /\ loader_db = EmptyDb
    /\ attempted = <<>>

\* connect, read the file, split it
LoaderOpen ==
    /\ pc = "open"
    /\ pc' = "loop"
    /\ statements' = Split(sql_content)
    /\ stmt_idx' = 1
    /\ UNCHANGED <<sql_content, executorVars, serverVars, comparatorVars,
                   loader_db, attempted>>

\* one pass of the for loop
LoaderStep ==
    /\ pc = "loop"
    /\ stmt_idx <= Len(statements)
    /\ LET ld == LoadStatement([db |-> loader_db, attempted |-> attempted],
                               statements[stmt_idx])
       IN  /\ loader_db' = ld.db
           /\ attempted' = ld.attempted
    /\ stmt_idx' = stmt_idx + 1
    /\ UNCHANGED <<sql_content, executorVars, serverVars, comparatorVars,
                   pc, statements>>

\* commit and return the connection
LoaderReturn ==
    /\ pc = "loop"
    /\ stmt_idx > Len(statements)
    /\ pc' = "done"
    /\ conns' = Append(conns, [id |-> Len(conns) + 1, db |-> loader_db])
    /\ UNCHANGED <<sql_content, calls, serverVars, comparatorVars,
                   statements, stmt_idx, loader_db, attempted>>

NextLoad == LoaderOpen \/ LoaderStep \/ LoaderReturn

SpecLoad == InitLoad /\ [][NextLoad]_vars

\* ========================================================================
\* Claims
\* ========================================================================
ComparisonMade == ~comparison.null

IsTabular(r) == r.success /\ "data" \in r.keys

\* How many times row occurs in data, a cell being its type and its value.
Occurrences(data, row) == Cardinality({i \in 1..Len(data) : data[i] = row})

SameTypedMultiset(d, e) ==
    \A row \in SeqToSet(d) \cup SeqToSet(e) : Occurrences(d, row) = Occurrences(e, row)

\* C1: for two successful tabular results the verdict is match exactly when
\* the row counts are equal, the sets of column names are equal and the
\* results hold the same multiset of rows, cells being equal only when they
\* agree in type and value.
C1_MatchIffSameTypedRows ==
    (ComparisonMade /\ IsTabular(user_result) /\ IsTabular(expected_result)) =>
        (comparison.match <=>
            /\ Len(user_result.data) = Len(expected_result.data)
            /\ SeqToSet(user_result.columns) = SeqToSet(expected_result.columns)
            /\ SameTypedMultiset(user_result.data, expected_result.data))

\* The reorderings of a sequence.
Permutations1(s) ==
    {[i \in 1..Len(s) |-> s[p[i]]] :
        p \in {f \in [1..Len(s) -> 1..Len(s)] :
                  \A i, j \in 1..Len(s) : f[i] = f[j] => i = j}}

\* C3: reordering the rows of either input leaves the verdict's match
\* unchanged.
C3_RowPermutationInvariant ==
    ComparisonMade =>
        /\ \A d \in Permutations1(user_result.data) :
              compare_query_results([user_result EXCEPT !.data = d],
                                    expected_result).match = comparison.match
        /\ \A d \in Permutations1(expected_result.data) :
              compare_query_results(user_result,
                                    [expected_result EXCEPT !.data = d]).match
                  = comparison.match

\* C3's case: three rows in an order the sort has to change, compared with
\* the same rows in another order, and a match.
C3_Witness ==
    /\ ComparisonMade
    /\ comparison.match
    /\ Len(user_result.data) = 3
    /\ user_result.data # expected_result.data
    /\ user_result.data[1] # user_result.data[2]

\* C10: when both results are successful and exactly one of them is
\* tabular, the verdict is no match.
C10_MixedNeverMatches ==
    (ComparisonMade /\ user_result.success /\ expected_result.success
        /\ (("data" \in user_result.keys) # ("data" \in expected_result.keys)))
        => ~comparison.match

\* ------------------------------------------------------------------------
\* Claims about execute_user_query (SpecExec)
\* ------------------------------------------------------------------------
IsRead(query) == StartsWith(Upper(Strip(query)), kwSELECT)

\* C2: a SELECT query that executes successfully, run twice and compared
\* with itself, is a match.
C2_ReflexiveOnReads ==
    \A i, j \in 1..Len(calls) :
        (i < j /\ calls[i].query = calls[j].query /\ IsRead(calls[i].query)
            /\ calls[i].result.success /\ calls[j].result.success)
        => compare_query_results(calls[i].result, calls[j].result).match

\* What query returns as the very first call on the dataset.
FirstCallResult(query) ==
    execute_user_query([conns |-> <<>>, calls |-> <<>>], sql_content, query).result

\* C6: whatever calls came before, a call returns what its query returns as
\* the first call on a freshly loaded dataset, and no two calls use the same
\* database instance.
C6_NoStateLeaks ==
    /\ \A i \in 1..Len(calls) : calls[i].result = FirstCallResult(calls[i].query)
    /\ \A i, j \in 1..Len(calls) : i # j => calls[i].conn # calls[j].conn
    /\ Len(conns) = Len(calls)

\* C6's case: a committed insert, then a failed statement, then a read
\* that returns rows.
C6_Witness ==
    /\ Len(calls) >= 3
    /\ calls[1].result.success /\ calls[1].result.row_count = 1
    /\ "message" \in calls[1].result.keys
    /\ ~calls[2].result.success
    /\ IsTabular(calls[3].result) /\ calls[3].result.row_count > 0

\* C7: in every successful tabular result the length of columns is the
\* number of keys of each row.
C7_ColumnsMatchRowKeys ==
    \A i \in 1..Len(calls) :
        IsTabular(calls[i].result) =>
            \A k \in 1..Len(calls[i].result.data) :
                Len(calls[i].result.columns)
                    = Cardinality(DOMAIN calls[i].result.data[k])

\* ------------------------------------------------------------------------
\* Claims about POST /execute_query (SpecHttp)
\* ------------------------------------------------------------------------
Handled == response # NoResponse

PassedValidation == response.keys = {"user_result", "comparison"}

Supplied(key) == key \in request.keys

\* C4, as claimed: for a query that passed validation, comparison is null
\* unless a question_id was supplied and is one the bank recognizes.
C4_NullUnlessRecognized ==
    (PassedValidation /\ ~response.comparison.null) =>
        (Supplied("question_id") /\ request.question_id \in {"1", "2", "3", "4"})

\* C4, amended: for a query that passed validation, comparison is null
\* exactly when question_id is missing or empty; a question_id that is
\* supplied, not empty and not recognized yields a verdict of no match.
C4_NullIffNoQuestionId ==
    PassedValidation =>
        /\ response.comparison.null
              <=> ~(Supplied("question_id") /\ request.question_id # "")
        /\ (Supplied("question_id") /\ request.question_id \notin {"", "1", "2", "3", "4"})
              => (~response.comparison.null /\ ~response.comparison.match)

\* C4's case: a successful query sent with the unrecognized question_id "99".
C4_Witness ==
    /\ PassedValidation
    /\ response.user_result.success
    /\ Supplied("question_id") /\ request.question_id = "99"
    /\ ~response.comparison.null

\* p occurs in s, character by character.
HasSubstring(s, p) ==
    \E i \in 1..Len(s) :
        /\ i + Len(p) - 1 <= Len(s)
        /\ \A j \in 1..Len(p) : s[i + j - 1] = p[j]

ClaimedKeywords ==
    {kwDROP, kwDELETE, kwUPDATE, kwINSERT, kwALTER, kwCREATE, kwTRUNCATE}

TrimmedQuery == Strip(IF Supplied("query") THEN request.query ELSE <<>>)

PassesBothChecks ==
    /\ TrimmedQuery # <<>>
    /\ \A kw \in ClaimedKeywords : ~HasSubstring(Upper(TrimmedQuery), kw)

\* C5: the dataset is loaded and the executor invoked only if the trimmed
\* query is not empty and its upper-cased text holds none of the seven
\* keywords; a request that fails a check gets the fixed error response (an
\* empty body is answered before the checks, with its own fixed error) and
\* no database is made and no statement executed; a request that passes
\* both checks reaches execution.
C5_ChecksGateExecution ==
    Handled =>
        IF PassesBothChecks
        THEN /\ conns # <<>>
             /\ calls # <<>>
             /\ calls[1].query = TrimmedQuery
             /\ PassedValidation
             /\ response.user_result = calls[1].result
        ELSE /\ conns = <<>>
             /\ calls = <<>>
             /\ response.keys = {"success", "error"}
             /\ ~response.success
             /\ response.error =
                   IF request.keys = {} THEN "No JSON data received"
                   ELSE IF TrimmedQuery = <<>> THEN "Query cannot be empty"
                   ELSE "For security reasons, only SELECT queries are allowed in this demo"

\* C5's case: a query that begins with SELECT and holds a lower-case drop
\* further on is rejected, nothing executed.
C5_Witness ==
    /\ Handled
    /\ StartsWith(TrimmedQuery, kwSELECT)
    /\ HasSubstring(TrimmedQuery, <<"d", "r", "o", "p">>)
    /\ ~response.success
    /\ calls = <<>>

\* C8: a query that passes the keyword filter and executes successfully
\* yields a tabular result.
C8_AcceptedIsTabular ==
    (PassedValidation /\ response.user_result.success)
        => "data" \in response.user_result.keys

\* ------------------------------------------------------------------------
\* Claims about create_database_from_sql (SpecLoad)
\* ------------------------------------------------------------------------
\* A fragment with nothing but white space and -- comments in it.
CommentOnly(fragment) == SkipBlank(fragment) = <<>>

RECURSIVE Statements(_, _)
Statements(frags, i) ==
    IF i > Len(frags) THEN <<>>
    ELSE (IF CommentOnly(frags[i]) THEN <<>> ELSE <<Strip(frags[i])>>)
            \o Statements(frags, i + 1)

\* C9: the loader attempts, once each and in source order, every fragment
\* that is not empty and not comment-only, a fragment with a statement after
\* a leading comment line included, and always runs to the end.
C9_EveryStatementAttempted ==
    pc = "done" => attempted = Statements(Split(sql_content), 1)

====
